---- MODULE Spec2Model ----
(***************************************************************************)
(* prisma/load_bulk_data.py: the directory walker that lists the molecule  *)
(* directories under data_path, descends into the first edge directory of  *)
(* each and prints one line per ".txt" entry.                              *)
(*                                                                         *)
(* A file or directory name is a sequence of one-character strings, so     *)
(* that pathlib's stem/suffix, str.split, slicing and str.upper are        *)
(* computed character by character.  A path is the sequence of names below *)
(* data_path (<<>> is data_path itself).                                   *)
(***************************************************************************)
EXTENDS Naturals, Sequences, FiniteSets

VARIABLES fs, pc, molecules, mi, molecule, edges, ei, edge, _edge, files, fi,
          out, iterated, printed

vars == <<fs, pc, molecules, mi, molecule, edges, ei, edge, _edge, files, fi,
          out, iterated, printed>>

-----------------------------------------------------------------------------
(* Bounds of the explored directory trees. *)

\* Largest number of entries (files and directories together) below data_path.
MaxNodes == 4

-----------------------------------------------------------------------------
(* Names. *)

EnergyCalibration ==
    <<"E","n","e","r","g","y"," ","C","a","l","i","b","r","a","t","i","o","n">>

EnergyCalibrationOld == EnergyCalibration \o <<".","o","l","d">>

P3HT == <<"P","3","H","T">>

Y6 == <<"Y","6">>

carbon == <<"c","a","r","b","o","n">>

nBak == <<"n",".","b","a","k">>

\* "dir" is a directory that can be listed, "locked" a directory whose listing
\* is refused (PermissionError), "file" anything that is not a directory.
Kinds == {"dir", "locked", "file"}

\* The names data_path may hold.
RootNames == {EnergyCalibration, EnergyCalibrationOld, P3HT, Y6}

\* The names a molecule directory may hold.
EdgeNames == {carbon, nBak}

\* The names an edge directory may hold.
FileNames ==
    { <<"4","5","d","e","g","_","s","c","a","n",".","t","x","t">>,
      <<"5","d","e","g",".","t","x","t">>,
      <<"1","3","5","d","e","g",".","t","x","t">>,
      <<"d","e","g",".","t","x","t">>,
      <<"1","d","e","g","2","d","e","g",".","t","x","t">>,
      <<"x",".","t","x","t">>,
      <<"s","c","a","n",".","t","x","t">>,
      <<"4","5","d","e","g",".","c","s","v">>,
      <<"4","5","d","e","g",".","T","X","T">>,
      <<"n","o","t","e","s">> }

-----------------------------------------------------------------------------
(* str and pathlib operations. *)

LowerCase ==
    <<"a","b","c","d","e","f","g","h","i","j","k","l","m",
      "n","o","p","q","r","s","t","u","v","w","x","y","z">>

UpperCase ==
    <<"A","B","C","D","E","F","G","H","I","J","K","L","M",
      "N","O","P","Q","R","S","T","U","V","W","X","Y","Z">>

\* str.upper() of a one-character string.
upper(c) ==
    IF \E i \in 1..Len(LowerCase) : LowerCase[i] = c
    THEN UpperCase[CHOOSE i \in 1..Len(LowerCase) : LowerCase[i] = c]
    ELSE c

\* str.rfind("."): the 1-based position of the last dot, 0 when there is none.
rfindDot(name) ==
    IF \E i \in 1..Len(name) : name[i] = "."
    THEN CHOOSE i \in 1..Len(name) :
            /\ name[i] = "."
            /\ \A j \in (i+1)..Len(name) : name[j] # "."
    ELSE 0

\* str.lower() of a one-character string.
lower(c) ==
    IF \E i \in 1..Len(UpperCase) : UpperCase[i] = c
    THEN LowerCase[CHOOSE i \in 1..Len(UpperCase) : UpperCase[i] = c]
    ELSE c

\* Variant of suffix: the suffix folded to lower case, as file.suffix.lower().
suffixLower(name) ==
    LET i == rfindDot(name)
        sfx == IF 1 < i /\ i < Len(name) THEN SubSeq(name, i, Len(name)) ELSE <<>>
    IN  [j \in 1..Len(sfx) |-> lower(sfx[j])]

\* PurePath.suffix: the last dot and what follows it, unless the dot is the
\* first or the last character of the name.
suffix(name) ==
    LET i == rfindDot(name)
    IN  IF 1 < i /\ i < Len(name) THEN SubSeq(name, i, Len(name)) ELSE <<>>

\* PurePath.stem: the name without its suffix.
stem(name) ==
    LET i == rfindDot(name)
    IN  IF 1 < i /\ i < Len(name) THEN SubSeq(name, 1, i - 1) ELSE name

\* s[i:i+len(sep)] == sep
matchAt(s, sep, i) ==
    /\ i + Len(sep) - 1 <= Len(s)
    /\ SubSeq(s, i, i + Len(sep) - 1) = sep

\* Variant of splitFirst: nothing when sep does not occur, as
\* s[:max(s.find(sep), 0)].
splitFirstOrNothing(s, sep) ==
    IF \E i \in 1..Len(s) : matchAt(s, sep, i)
    THEN LET k == CHOOSE i \in 1..Len(s) :
                    /\ matchAt(s, sep, i)
                    /\ \A j \in 1..(i-1) : ~matchAt(s, sep, j)
         IN  SubSeq(s, 1, k - 1)
    ELSE <<>>

\* str.split(sep)[0]: what precedes the first occurrence of sep, the whole
\* string when sep does not occur.
splitFirst(s, sep) ==
    IF \E i \in 1..Len(s) : matchAt(s, sep, i)
    THEN LET k == CHOOSE i \in 1..Len(s) :
                    /\ matchAt(s, sep, i)
                    /\ \A j \in 1..(i-1) : ~matchAt(s, sep, j)
         IN  SubSeq(s, 1, k - 1)
    ELSE s

\* Variant of lastTwo: the first two characters, s[:2].
firstTwo(s) == IF Len(s) <= 2 THEN s ELSE SubSeq(s, 1, 2)

\* s[-2:]
lastTwo(s) == IF Len(s) <= 2 THEN s ELSE SubSeq(s, Len(s) - 1, Len(s))

deg == <<"d","e","g">>

txt == <<".","t","x","t">>

\* file.stem.split("deg")[0][-2:]
anlge(fileName) == lastTwo(splitFirst(stem(fileName), deg))

\* Variant of edgeLabel: the first character as it is, edge.stem[0] + "-K".
edgeLabelAsIs(edgeName) == <<stem(edgeName)[1]>> \o <<"-","K">>

\* edge.stem[0].upper() + "-K"
edgeLabel(edgeName) == <<upper(stem(edgeName)[1])>> \o <<"-","K">>

\* f"Loading data for {molecule} at the {_edge} at {anlge} degrees"
formatLine(m, e, a) ==
    <<"L","o","a","d","i","n","g"," ","d","a","t","a"," ","f","o","r"," ">>
    \o m \o <<" ","a","t"," ","t","h","e"," ">>
    \o e \o <<" ","a","t"," ">>
    \o a \o <<" ","d","e","g","r","e","e","s">>

-----------------------------------------------------------------------------
(* The directory tree: data_path and the entries below it.  fs.nodes lists *)
(* the entries in the order the operating system yields them; the entries  *)
(* of one directory are yielded in their order in this list.               *)

parent(path) == SubSeq(path, 1, Len(path) - 1)

\* The entries a directory at a path may hold: molecule directories below
\* data_path, edge directories below them, measurement files below those.
Entries(path) ==
    CASE Len(path) = 0 ->
            {[path |-> <<r>>, kind |-> k] : r \in RootNames, k \in Kinds}
      [] Len(path) = 1 ->
            {[path |-> Append(path, e), kind |-> k] : e \in EdgeNames, k \in Kinds}
      [] OTHER ->
            {[path |-> Append(path, f), kind |-> "file"] : f \in FileNames}

\* The entries that can be appended to the node list t: a new entry of
\* data_path or of a listable directory of t.  One list stands for each tree:
\* entries come level by level, and within a level in the order of their
\* parents, so only the order among the entries of one directory is free.
Extensions(t) ==
    LET paths == {t[i].path : i \in 1..Len(t)}
        last == t[Len(t)].path
        \* positions of the directories that may still receive an entry
        open == IF Len(last) = 3
                THEN {i \in 1..Len(t) :
                        \/ t[i].path = parent(last)
                        \/ /\ Len(t[i].path) = 2
                           /\ \E j \in 1..(i-1) : t[j].path = parent(last)}
                ELSE IF Len(last) = 2
                THEN {i \in 1..Len(t) :
                        \/ Len(t[i].path) = 2
                        \/ t[i].path = parent(last)
                        \/ /\ Len(t[i].path) = 1
                           /\ \E j \in 1..(i-1) : t[j].path = parent(last)}
                ELSE 1..Len(t)
        below == UNION {Entries(t[i].path) : i \in {j \in open : t[j].kind = "dir"}}
        top == IF Len(last) = 1 THEN Entries(<<>>) ELSE {}
    IN  IF t = <<>> THEN Entries(<<>>)
        ELSE {nd \in top \cup below : nd.path \notin paths}

NodeLists[n \in Nat] ==
    IF n = 0 THEN {<<>>}
    ELSE LET shorter == NodeLists[n - 1]
         IN  shorter
             \cup UNION {{Append(t, nd) : nd \in Extensions(t)} : t \in shorter}

\* A node list and the lists with one more entry.
Grown(t) == {t} \cup {Append(t, nd) : nd \in Extensions(t)}

\* A data_path that is missing, unreadable or not a directory.
BrokenRoots == {[root |-> k, nodes |-> <<>>] : k \in {"missing", "locked", "file"}}

\* What stat() finds at a path.
kindOf(f, path) ==
    IF path = <<>> THEN f.root
    ELSE IF \E i \in 1..Len(f.nodes) : f.nodes[i].path = path
         THEN f.nodes[CHOOSE i \in 1..Len(f.nodes) : f.nodes[i].path = path].kind
         ELSE "missing"

\* Path.is_dir()
is_dir(f, path) == kindOf(f, path) \in {"dir", "locked"}

\* Whether Path.iterdir() yields the directory's entries rather than raising
\* FileNotFoundError, NotADirectoryError or PermissionError.
listable(f, path) == kindOf(f, path) = "dir"

isChild(path, nd) == Len(nd.path) = Len(path) + 1 /\ parent(nd.path) = path

\* Path.iterdir(): the names of the directory's entries, in listing order.
iterdir(f, path) ==
    LET IsEntry(nd) == isChild(path, nd)
        ch == SelectSeq(f.nodes, IsEntry)
    IN  [i \in 1..Len(ch) |-> ch[i].path[Len(ch[i].path)]]

-----------------------------------------------------------------------------
(* The script, one action per step of its loops.                           *)
(*                                                                         *)
(* pc is the position in the script: "start" before line 10, "molecules"   *)
(* at the head of the loop of line 14, "edges" at the head of the loop of  *)
(* line 15, "files" at the head of the loop of line 18, "done" after the   *)
(* last line, "fault" once an exception has ended the process.  mi, ei and *)
(* fi count the entries the three loops have taken.  out is standard       *)
(* output.  Two history variables record what the walk did: iterated, the  *)
(* directories whose listing was obtained, and printed, the entry each     *)
(* line of out was printed for; both carry the number mi of the molecule   *)
(* being walked.                                                           *)

\* data_path holds at most MaxNodes entries, or cannot be listed at all.
Init ==
    /\ \/ \E t \in NodeLists[MaxNodes - 1] :
            \E u \in Grown(t) : fs = [root |-> "dir", nodes |-> u]
       \/ fs \in BrokenRoots
    /\ pc = "start"
    /\ molecules = <<>>
    /\ mi = 0
    /\ molecule = <<>>
    /\ edges = <<>>
    /\ ei = 0
    /\ edge = <<>>
    /\ _edge = <<>>
    /\ files = <<>>
    /\ fi = 0
    /\ out = <<>>
    /\ iterated = <<>>
    /\ printed = <<>>

\* Lines 10-12: x.stem for x in data_path.iterdir()
\*              if x.is_dir() and x.name != "Energy Calibration"
moleculeList(f) ==
    LET keep(x) == is_dir(f, <<x>>) /\ x # EnergyCalibration
        kept == SelectSeq(iterdir(f, <<>>), keep)
    IN  [i \in 1..Len(kept) |-> stem(kept[i])]

\* Lines 10-12: the molecules list is built, or listing data_path raises.
ListRoot ==
    /\ pc = "start"
    /\ IF listable(fs, <<>>)
       THEN /\ molecules' = moleculeList(fs)
            /\ iterated' = Append(iterated, [mi |-> 0, path |-> <<>>])
            /\ pc' = "molecules"
       ELSE /\ UNCHANGED <<molecules, iterated>>
            /\ pc' = "fault"
    /\ UNCHANGED <<fs, mi, molecule, edges, ei, edge, _edge, files, fi, out, printed>>

\* Variant of NextMolecule: a molecule directory that cannot be listed is
\* passed over, as under try/except OSError: continue.
NextMoleculeSkips ==
    /\ pc = "molecules"
    /\ mi < Len(molecules)
    /\ mi' = mi + 1
    /\ molecule' = molecules[mi + 1]
    /\ IF listable(fs, <<molecules[mi + 1]>>)
       THEN /\ edges' = iterdir(fs, <<molecules[mi + 1]>>)
            /\ ei' = 0
            /\ iterated' = Append(iterated,
                    [mi |-> mi + 1, path |-> <<molecules[mi + 1]>>])
            /\ pc' = "edges"
       ELSE /\ UNCHANGED <<edges, ei, iterated>>
            /\ pc' = "molecules"
    /\ UNCHANGED <<fs, molecules, edge, _edge, files, fi, out, printed>>

\* Lines 14-15: the next molecule is taken and its directory listed.
NextMolecule ==
    /\ pc = "molecules"
    /\ mi < Len(molecules)
    /\ mi' = mi + 1
    /\ molecule' = molecules[mi + 1]
    /\ IF listable(fs, <<molecules[mi + 1]>>)
       THEN /\ edges' = iterdir(fs, <<molecules[mi + 1]>>)
            /\ ei' = 0
            /\ iterated' = Append(iterated,
                    [mi |-> mi + 1, path |-> <<molecules[mi + 1]>>])
            /\ pc' = "edges"
       ELSE /\ UNCHANGED <<edges, ei, iterated>>
            /\ pc' = "fault"
    /\ UNCHANGED <<fs, molecules, edge, _edge, files, fi, out, printed>>

\* Line 14: the molecules are exhausted and the script ends.
Finish ==
    /\ pc = "molecules"
    /\ mi = Len(molecules)
    /\ pc' = "done"
    /\ UNCHANGED <<fs, molecules, mi, molecule, edges, ei, edge, _edge, files, fi,
                   out, iterated, printed>>

\* Variant of NextEdge: the break of line 24 one level out, so that the first
\* entry of the molecule directory ends the loop even when it is no directory.
NextEdgeBreaksOnAnyEntry ==
    /\ pc = "edges"
    /\ ei < Len(edges)
    /\ ei' = ei + 1
    /\ edge' = edges[ei + 1]
    /\ IF is_dir(fs, <<molecule, edges[ei + 1]>>)
       THEN /\ _edge' = edgeLabel(edges[ei + 1])
            /\ IF listable(fs, <<molecule, edges[ei + 1]>>)
               THEN /\ files' = iterdir(fs, <<molecule, edges[ei + 1]>>)
                    /\ fi' = 0
                    /\ iterated' = Append(iterated,
                            [mi |-> mi, path |-> <<molecule, edges[ei + 1]>>])
                    /\ pc' = "files"
               ELSE /\ UNCHANGED <<files, fi, iterated>>
                    /\ pc' = "fault"
       ELSE /\ UNCHANGED <<_edge, iterated, files, fi>>
            /\ pc' = "molecules"
    /\ UNCHANGED <<fs, molecules, mi, molecule, edges, out, printed>>

\* Lines 15-18: the next entry of the molecule directory; a directory gets its
\* label and is listed, anything else is passed over.
NextEdge ==
    /\ pc = "edges"
    /\ ei < Len(edges)
    /\ ei' = ei + 1
    /\ edge' = edges[ei + 1]
    /\ IF is_dir(fs, <<molecule, edges[ei + 1]>>)
       THEN /\ _edge' = edgeLabel(edges[ei + 1])
            /\ IF listable(fs, <<molecule, edges[ei + 1]>>)
               THEN /\ files' = iterdir(fs, <<molecule, edges[ei + 1]>>)
                    /\ fi' = 0
                    /\ iterated' = Append(iterated,
                            [mi |-> mi, path |-> <<molecule, edges[ei + 1]>>])
                    /\ pc' = "files"
               ELSE /\ UNCHANGED <<files, fi, iterated>>
                    /\ pc' = "fault"
       ELSE /\ UNCHANGED <<_edge, iterated, files, fi>>
            /\ pc' = "edges"
    /\ UNCHANGED <<fs, molecules, mi, molecule, edges, out, printed>>

\* Line 15: the molecule directory is exhausted without a break.
EdgesExhausted ==
    /\ pc = "edges"
    /\ ei = Len(edges)
    /\ pc' = "molecules"
    /\ UNCHANGED <<fs, molecules, mi, molecule, edges, ei, edge, _edge, files, fi,
                   out, iterated, printed>>

\* Variant of NextFile: a printed entry is also recorded on disk, a marker
\* file written next to the measurement.
NextFileWritesMarker ==
    /\ pc = "files"
    /\ fi < Len(files)
    /\ fi' = fi + 1
    /\ IF suffix(files[fi + 1]) = txt
       THEN /\ out' = Append(out, formatLine(molecule, _edge, anlge(files[fi + 1])))
            /\ printed' = Append(printed,
                    [mi |-> mi, path |-> <<molecule, edge, files[fi + 1]>>])
            /\ fs' = [fs EXCEPT !.nodes = Append(@,
                    [path |-> <<molecule, edge, files[fi + 1] \o <<".","o","k">>>>,
                     kind |-> "file"])]
       ELSE UNCHANGED <<out, printed, fs>>
    /\ pc' = "files"
    /\ UNCHANGED <<molecules, mi, molecule, edges, ei, edge, _edge, files, iterated>>

\* Lines 18-23: the next entry of the edge directory; a ".txt" entry is printed.
NextFile ==
    /\ pc = "files"
    /\ fi < Len(files)
    /\ fi' = fi + 1
    /\ IF suffix(files[fi + 1]) = txt
       THEN /\ out' = Append(out, formatLine(molecule, _edge, anlge(files[fi + 1])))
            /\ printed' = Append(printed,
                    [mi |-> mi, path |-> <<molecule, edge, files[fi + 1]>>])
       ELSE UNCHANGED <<out, printed>>
    /\ pc' = "files"
    /\ UNCHANGED <<fs, molecules, mi, molecule, edges, ei, edge, _edge, files, iterated>>

\* Variant of Break: no break, the loop of line 15 goes on to the next entry.
BreakMissing ==
    /\ pc = "files"
    /\ fi = Len(files)
    /\ pc' = "edges"
    /\ UNCHANGED <<fs, molecules, mi, molecule, edges, ei, edge, _edge, files, fi,
                   out, iterated, printed>>

\* Line 24: break, once the edge directory's entries are exhausted.
Break ==
    /\ pc = "files"
    /\ fi = Len(files)
    /\ pc' = "molecules"
    /\ UNCHANGED <<fs, molecules, mi, molecule, edges, ei, edge, _edge, files, fi,
                   out, iterated, printed>>

Next ==
    \/ ListRoot
    \/ NextMolecule
    \/ Finish
    \/ NextEdge
    \/ EdgesExhausted
    \/ NextFile
    \/ Break

Spec == Init /\ [][Next]_vars

-----------------------------------------------------------------------------
(* What the specification expects, stated without the script's own         *)
(* operators.                                                              *)

LineHead ==
    <<"L","o","a","d","i","n","g"," ","d","a","t","a"," ","f","o","r"," ">>

AtThe == <<" ","a","t"," ","t","h","e"," ">>

At == <<" ","a","t"," ">>

Degrees == <<" ","d","e","g","r","e","e","s">>

\* "Loading data for {molecule} at the {edge label} at {angle} degrees"
ExpectedLine(m, label, a) == LineHead \o m \o AtThe \o label \o At \o a \o Degrees

\* Whether a line names m as its molecule.
CarriesMolecule(line, m) ==
    /\ Len(line) >= Len(LineHead \o m \o AtThe)
    /\ SubSeq(line, 1, Len(LineHead \o m \o AtThe)) = LineHead \o m \o AtThe

\* The edge label and the angle of a line that names m as its molecule; an
\* edge label is three characters long.
LabelOf(line, m) ==
    LET from == Len(LineHead \o m \o AtThe)
    IN  SubSeq(line, from + 1, from + Len(<<"C","-","K">>))

AngleOf(line, m) ==
    LET from == Len(LineHead \o m \o AtThe) + Len(<<"C","-","K">>) + Len(At)
    IN  SubSeq(line, from + 1, Len(line) - Len(Degrees))

\* The first character of an edge directory's name in upper case, then "-K".
ExpectedLabel(edgeName) ==
    LET first == edgeName[1]
        capital == CASE first = "c" -> "C"
                     [] first = "n" -> "N"
                     [] OTHER -> first
    IN  <<capital, "-", "K">>

\* The name ends in ".txt" and ".txt" is not the whole of it.
HasTxtSuffix(name) ==
    LET n == Len(name)
    IN  /\ n > Len(<<".","t","x","t">>)
        /\ <<name[n - 3], name[n - 2], name[n - 1], name[n]>> = <<".","t","x","t">>

\* The stem of a name that ends in ".txt".
StemOfTxt(name) == [i \in 1..(Len(name) - Len(<<".","t","x","t">>)) |-> name[i]]

DegAt(s, i) == i + 2 <= Len(s) /\ <<s[i], s[i + 1], s[i + 2]>> = <<"d","e","g">>

ContainsDeg(s) == \E i \in 1..Len(s) : DegAt(s, i)

\* The segment of s before the first occurrence of "deg".
BeforeFirstDeg(s) ==
    LET firstAt == CHOOSE i \in 1..Len(s) : DegAt(s, i) /\ \A j \in 1..Len(s) : DegAt(s, j) => i <= j
    IN  [i \in 1..(firstAt - 1) |-> s[i]]

\* The last two characters of s, the whole of s when it has fewer than two.
LastUpToTwo(s) == IF Len(s) < 2 THEN s ELSE <<s[Len(s) - 1], s[Len(s)]>>

\* A malformed measurement name: no "deg" in the stem, or a stem shorter than
\* two characters.
Malformed(name) == ~ContainsDeg(StemOfTxt(name)) \/ Len(StemOfTxt(name)) < 2

\* The contiguous pieces of a name, the empty one included.
Pieces(name) ==
    {<<>>} \cup {SubSeq(name, a, b) : a \in 1..Len(name), b \in 1..Len(name)}

\* The subdirectories of data_path other than "Energy Calibration", by name,
\* in listing order.
ExpectedMolecules(f) ==
    LET IsMolecule(x) == is_dir(f, <<x>>) /\ x # EnergyCalibration
    IN  SelectSeq(iterdir(f, <<>>), IsMolecule)

\* The positions, in the listing of the directory of molecule m, of its
\* subdirectories.
SubdirPositions(f, m) ==
    {j \in 1..Len(iterdir(f, <<m>>)) : is_dir(f, <<m, iterdir(f, <<m>>)[j]>>)}

HasSubdir(f, m) == SubdirPositions(f, m) # {}

\* The first subdirectory the listing of the directory of molecule m yields.
FirstSubdir(f, m) ==
    iterdir(f, <<m>>)[CHOOSE j \in SubdirPositions(f, m) :
                        \A k \in SubdirPositions(f, m) : j <= k]

\* The ".txt" entries of a directory, in listing order.
TxtEntries(f, path) == SelectSeq(iterdir(f, path), HasTxtSuffix)

\* The walk of the k-th molecule is over, and was not ended by a fault.
Finished(k) == k < mi \/ (k = mi /\ pc \in {"molecules", "done"})

\* The edge directories listed, and the lines printed, during the walk of the
\* k-th molecule, as positions in iterated and in printed.
WalkedEdges(k) ==
    {i \in 1..Len(iterated) : iterated[i].mi = k /\ Len(iterated[i].path) = 2}

LinesFor(k) == {i \in 1..Len(printed) : printed[i].mi = k}

f45degScan == <<"4","5","d","e","g","_","s","c","a","n",".","t","x","t">>

f5deg == <<"5","d","e","g",".","t","x","t">>

f135deg == <<"1","3","5","d","e","g",".","t","x","t">>

fDeg == <<"d","e","g",".","t","x","t">>

-----------------------------------------------------------------------------
(* C1: nothing is ever produced from the directory "Energy Calibration" of *)
(* data_path: that directory is never listed and no line of the output     *)
(* names "Energy Calibration" as its molecule, whatever else data_path     *)
(* holds.  The script breaks this: it names a molecule by the stem of its  *)
(* directory, so "Energy Calibration.old" sends it into                    *)
(* "Energy Calibration".                                                   *)
C1_EnergyCalibrationNeverWalked ==
    /\ \A i \in 1..Len(iterated) :
        iterated[i].path = <<>> \/ iterated[i].path[1] # EnergyCalibration
    /\ \A i \in 1..Len(out) : ~CarriesMolecule(out[i], EnergyCalibration)

C3_MoleculesAreDirectoryNames ==
    /\ (pc # "start" /\ listable(fs, <<>>)) => molecules = ExpectedMolecules(fs)
    /\ \A i \in 1..Len(iterated) :
        Len(iterated[i].path) = 1 =>
            /\ iterated[i].mi <= Len(ExpectedMolecules(fs))
            /\ iterated[i].path[1] = ExpectedMolecules(fs)[iterated[i].mi]
    /\ \A i \in 1..Len(printed) :
        /\ printed[i].mi <= Len(ExpectedMolecules(fs))
        /\ CarriesMolecule(out[i], ExpectedMolecules(fs)[printed[i].mi])

(* C4: each ".txt" entry of the edge directory listed for a molecule gets  *)
(* exactly one line, "Loading data for {molecule} at the {edge label} at   *)
(* {angle} degrees", whose edge label is the first character of the edge   *)
(* directory's name in upper case followed by "-K" ("carbon" and           *)
(* "45deg_scan.txt" give "... at the C-K at 45 degrees"); the lines of one *)
(* molecule carry one edge label.                                          *)
C4_OneLabelledLinePerTxtEntry ==
    /\ Len(out) = Len(printed)
    /\ \A i \in 1..Len(printed) :
        LET p == printed[i].path
        IN  /\ \E a \in Pieces(p[3]) :
                out[i] = ExpectedLine(p[1], ExpectedLabel(p[2]), a)
            /\ (p[2] = carbon /\ p[3] = f45degScan) =>
                out[i] = LineHead \o p[1] \o AtThe \o <<"C","-","K">> \o At
                            \o <<"4","5">> \o Degrees
    /\ \A i, j \in 1..Len(printed) :
        printed[i].mi = printed[j].mi =>
            LabelOf(out[i], printed[i].path[1]) = LabelOf(out[j], printed[j].path[1])
    /\ \A k \in 1..mi :
        Finished(k) =>
            \A i \in WalkedEdges(k) :
                \A n \in 1..Len(TxtEntries(fs, iterated[i].path)) :
                    Cardinality({j \in LinesFor(k) :
                        printed[j].path =
                            Append(iterated[i].path, TxtEntries(fs, iterated[i].path)[n])}) = 1

\* C4 witness: the run is over and a line was printed for
\* carbon/45deg_scan.txt.
C4_Witness ==
    /\ pc = "done"
    /\ \E i \in 1..Len(printed) :
        /\ printed[i].path[2] = carbon
        /\ printed[i].path[3] = f45degScan
        /\ LabelOf(out[i], printed[i].path[1]) = <<"C","-","K">>

(* C5: the angle of a line is the last two characters of the segment of    *)
(* the file's stem before the first "deg": the whole segment when it has   *)
(* fewer than two characters ("5deg.txt" gives "5", a stem that starts     *)
(* with "deg" gives the empty string), its last two when it has more       *)
(* ("135deg.txt" gives "35").                                              *)
C5_AngleIsLastTwoBeforeDeg ==
    \A i \in 1..Len(printed) :
        LET p == printed[i].path
            angle == AngleOf(out[i], p[1])
        IN  /\ ContainsDeg(StemOfTxt(p[3])) =>
                /\ CarriesMolecule(out[i], p[1])
                /\ angle = LastUpToTwo(BeforeFirstDeg(StemOfTxt(p[3])))
            /\ p[3] = f5deg => angle = <<"5">>
            /\ p[3] = f135deg => angle = <<"3","5">>
            /\ p[3] = fDeg => angle = <<>>

\* C5 witness: a line was printed for "135deg.txt", whose segment before
\* "deg" has three characters, and its angle is "35".
C5_Witness ==
    \E i \in 1..Len(printed) :
        /\ printed[i].path[3] = f135deg
        /\ AngleOf(out[i], printed[i].path[1]) = <<"3","5">>

(* C6: only entries whose last suffix is exactly ".txt" get a line, so the *)
(* lines printed for a molecule are as many as the ".txt" entries of the   *)
(* edge directory listed for it.                                           *)
C6_OnlyTxtEntriesPrinted ==
    /\ \A i \in 1..Len(printed) : HasTxtSuffix(printed[i].path[3])
    /\ \A k \in 1..mi :
        Finished(k) =>
            Cardinality(LinesFor(k)) =
                IF WalkedEdges(k) = {} THEN 0
                ELSE Len(TxtEntries(fs,
                        iterated[CHOOSE i \in WalkedEdges(k) : TRUE].path))

\* C6 witness: the run is over and the edge directory listed for a molecule
\* held a ".txt" entry and another entry; one line was printed.
C6_Witness ==
    /\ pc = "done"
    /\ Len(out) = 1
    /\ \E i \in WalkedEdges(1) :
        /\ Len(iterdir(fs, iterated[i].path)) = 2
        /\ Len(TxtEntries(fs, iterated[i].path)) = 1

C8_FaultAbortsRun ==
    [][/\ (pc = "start" /\ ~listable(fs, <<>>)) =>
            (pc' = "fault" /\ out' = <<>>)
       /\ (pc = "molecules" /\ mi < Len(molecules)
            /\ ~listable(fs, <<molecules[mi + 1]>>)) =>
            (pc' = "fault" /\ out' = out)
       /\ (pc = "edges" /\ ei < Len(edges)
            /\ is_dir(fs, <<molecule, edges[ei + 1]>>)
            /\ ~listable(fs, <<molecule, edges[ei + 1]>>)) =>
            (pc' = "fault" /\ out' = out)
       /\ pc = "fault" => (pc' = "fault" /\ out' = out)]_vars

\* C8 witness: the run ended in a fault at the second molecule or later, with
\* lines of an earlier molecule printed.
C8_Witness == pc = "fault" /\ mi >= 2 /\ out # <<>>

C10_NonDirectoriesSkipped ==
    /\ \A i \in 1..Len(iterated) :
        LET m == iterated[i].path[1]
            k == iterated[i].mi
        IN  Len(iterated[i].path) = 1 =>
                /\ (Finished(k) /\ HasSubdir(fs, m)
                        /\ listable(fs, <<m, FirstSubdir(fs, m)>>)) =>
                        \E j \in WalkedEdges(k) :
                            iterated[j].path = <<m, FirstSubdir(fs, m)>>
                /\ ~HasSubdir(fs, m) =>
                        /\ LinesFor(k) = {}
                        /\ ~(pc = "fault" /\ mi = k)
    /\ pc = "done" =>
        /\ mi = Len(molecules)
        /\ \A k \in 1..Len(molecules) :
            \E i \in 1..Len(iterated) :
                iterated[i].mi = k /\ iterated[i].path = <<molecules[k]>>

\* C10 witness: the run is over; the listing of a molecule directory yielded
\* an entry that is no directory before its first subdirectory, and a line
\* was printed from that subdirectory.
C10_Witness ==
    /\ pc = "done"
    /\ out # <<>>
    /\ \E i \in 1..Len(iterated) :
        /\ Len(iterated[i].path) = 1
        /\ HasSubdir(fs, iterated[i].path[1])
        /\ ~is_dir(fs, <<iterated[i].path[1], iterdir(fs, iterated[i].path)[1]>>)
        /\ printed[1].path[2] = FirstSubdir(fs, iterated[i].path[1])

====
